---- MODULE Spec2Model ----
(***************************************************************************)
(* Model of the hospital-regulation ETL repository: the unit transformer   *)
(* and its truncate-and-reload loader, the queue ETL (parse, de-duplicate, *)
(* anonymize, project, append), the synthetic queue generator, the        *)
(* dashboard reader with its memoized joined query, and the pure coercions *)
(* they use.                                                               *)
(*                                                                         *)
(* Text values are sequences of one-character strings, so that str.split,  *)
(* str.title, str.replace and the regular expression \D are computed       *)
(* character by character as pandas/Python compute them.  A missing value  *)
(* (None / NaN / NaT) is the one-element sequence NULL, whose element is   *)
(* not a character.                                                        *)
(***************************************************************************)
EXTENDS Integers, Sequences, FiniteSets, Bags, TLC

VARIABLES
    arg,        \* pure-function harness: the value handed to the function
    ret,        \* pure-function harness: the value it returned
    called,     \* pure-function harness: which function ran ("none" before)
    env,        \* which connection-string variable the environment sets
    copy,       \* which copy of the units script is deployed
    issued,     \* the kinds of SQL statement issued against the store so far
    unidades_saude,   \* rows of the units table, a bag
    unidadesExists,   \* whether the units table exists in the store
    loader,     \* per units-pipeline process: position, frames, what it logged
    overlapped, \* history: two loader runs were in progress at once
    everFailed, \* history: some store step of a loader failed
    lastLoad,   \* history: the load that completed last, and the failed appends so far
    runs,       \* number of pipeline runs started (bounded by MaxRuns)
    qscript,    \* which copy of the queue ETL is deployed
    anonymize_method,   \* the method handed to run_etl of etl.py
    fila_regulacao,   \* rows of the queue table, a bag
    filaCols,   \* columns of the queue table; {} while the table does not exist
    etl,        \* the queue ETL process: position, frames, how its last run ended
    gen,        \* how the last run of the generator ended
    copias,     \* history: batches the ETL appended since the table was last emptied
    cache,      \* st.cache_data entry of consultar_dados: validity, age, result
    engine,     \* st.cache_resource entry of iniciar_conexao: "unset", "engine" or "none"
    storeUp,    \* whether the store answers queries
    dash,       \* the dashboard script: position and what its last run showed
    sinceQuery, \* history: time since the dashboard last queried the store (-1: never)
    cleared     \* history: the cache was cleared by hand since that query

pureVars == <<arg, ret, called>>
unitVars == <<unidades_saude, unidadesExists, loader, overlapped, everFailed, lastLoad>>

queueVars == <<qscript, anonymize_method, fila_regulacao, filaCols, etl, gen, copias>>

dashVars == <<cache, engine, storeUp, dash, sinceQuery, cleared>>

vars == <<arg, ret, called, env, copy, issued, unidades_saude, unidadesExists, loader,
          overlapped, everFailed, lastLoad, runs,
          qscript, anonymize_method, fila_regulacao, filaCols, etl, gen, copias,
          cache, engine, storeUp, dash, sinceQuery, cleared>>

----------------------------------------------------------------------------
(* Bounds of the model. *)

MaxNameLen == 5
MaxCnesLen == 3
MaxUnitRows == 2
MaxRuns == 2
MaxExtractRows == 2
MaxGenRows == 1
MaxBoolLen == 3
MaxTransformRows == 1
MaxDashRows == 2

----------------------------------------------------------------------------
(* Text primitives of Python / pandas. *)

NULL == <<"<null>">>

Lowercase == <<"a","b","c","d","e","f","g","h","i","j","k","l","m",
               "n","o","p","q","r","s","t","u","v","w","x","y","z">>
Uppercase == <<"A","B","C","D","E","F","G","H","I","J","K","L","M",
               "N","O","P","Q","R","S","T","U","V","W","X","Y","Z">>

IsLower(c) == \E i \in 1..26 : Lowercase[i] = c
IsUpper(c) == \E i \in 1..26 : Uppercase[i] = c
IsLetter(c) == IsLower(c) \/ IsUpper(c)
IsDigit(c) == c \in {"0","1","2","3","4","5","6","7","8","9"}
IsSpace(c) == c \in {" ", "\t"}

\* str.upper() / str.lower() on one character
upper(c) == IF IsLower(c) THEN Uppercase[CHOOSE i \in 1..26 : Lowercase[i] = c] ELSE c
lower(c) == IF IsUpper(c) THEN Lowercase[CHOOSE i \in 1..26 : Uppercase[i] = c] ELSE c

RECURSIVE lstrip(_)
lstrip(s) == IF s = <<>> \/ ~IsSpace(Head(s)) THEN s ELSE lstrip(Tail(s))

RECURSIVE rstrip(_)
rstrip(s) == IF s = <<>> \/ ~IsSpace(s[Len(s)]) THEN s ELSE rstrip(SubSeq(s, 1, Len(s) - 1))

\* str.strip()
strip(s) == rstrip(lstrip(s))

\* index of the first whitespace character of s, Len(s)+1 when there is none
FirstSpace(s) == IF \E i \in 1..Len(s) : IsSpace(s[i])
                 THEN CHOOSE i \in 1..Len(s) : IsSpace(s[i]) /\ \A j \in 1..(i-1) : ~IsSpace(s[j])
                 ELSE Len(s) + 1

\* str.split() with no separator: the maximal runs of non-whitespace
RECURSIVE split(_)
split(s) == LET t == lstrip(s) IN
            IF t = <<>> THEN <<>>
            ELSE LET n == FirstSpace(t) IN
                 <<SubSeq(t, 1, n - 1)>> \o split(SubSeq(t, n, Len(t)))

\* Series.astype(str) on one cell: a missing value becomes the text "nan"
astype_str(v) == IF v = NULL THEN <<"n","a","n">> ELSE v

\* str.title() on one cell: a letter is upper-cased when it starts the text or
\* follows a non-letter, lower-cased otherwise
str_title(s) == [i \in 1..Len(s) |->
                   IF i = 1 \/ ~IsLetter(s[i-1]) THEN upper(s[i]) ELSE lower(s[i])]

\* all sequences over alphabet A of length at most n
SeqsUpTo(A, n) == UNION {[1..k -> A] : k \in 0..n}

----------------------------------------------------------------------------
(* Patient-name anonymizers (the three copies of the queue ETL). *)

\* faulty variant: takes the second token where the code takes the last
anonimizar_nome_second(nome) ==
    IF nome = NULL THEN NULL
    ELSE LET partes == split(strip(astype_str(nome))) IN
         IF partes = <<>> THEN <<>>
         ELSE IF Len(partes) = 1 THEN <<upper(partes[1][1]), ".">>
         ELSE <<upper(partes[1][1]), ".", " ", upper(partes[2][1]), ".">>

\* scripts/main.py anonimizar_nome
anonimizar_nome(nome) ==
    IF nome = NULL THEN NULL
    ELSE LET partes == split(strip(astype_str(nome))) IN
         IF partes = <<>> THEN <<>>
         ELSE IF Len(partes) = 1 THEN <<upper(partes[1][1]), ".">>
         ELSE <<upper(partes[1][1]), ".", " ", upper(partes[Len(partes)][1]), ".">>

\* main.py initials
initials(name) ==
    IF name = NULL THEN NULL
    ELSE LET parts == split(strip(astype_str(name))) IN
         IF parts = <<>> THEN <<>>
         ELSE IF Len(parts) = 1 THEN <<upper(parts[1][1])>> \o <<".">>
         ELSE <<upper(parts[1][1]), ".", " ", upper(parts[Len(parts)][1]), ".">>

HexDigits == <<"0","1","2","3","4","5","6","7","8","9","a","b","c","d","e","f">>

\* code point stand-in of a character, for the digest below
Ord(c) == IF IsLower(c) THEN CHOOSE i \in 1..26 : Lowercase[i] = c
          ELSE IF IsUpper(c) THEN 26 + (CHOOSE i \in 1..26 : Uppercase[i] = c)
          ELSE IF IsSpace(c) THEN 53 ELSE 54

RECURSIVE Mix(_, _)
Mix(s, h) == IF s = <<>> THEN h ELSE Mix(Tail(s), (h * 31 + Ord(Head(s))) % 65521)

\* hashlib.sha256(name.encode()).hexdigest()[:12]: SHA-256 is abstracted to a
\* deterministic digest; what is kept is that the result is 12 hexadecimal
\* characters computed from the whole name
sha256_hex12(name) ==
    [i \in 1..12 |-> HexDigits[((Mix(name, 7 * i) + i * i) % 16) + 1]]

\* etl.py anonymize_name
anonymize_name(name, method) ==
    IF name = NULL THEN NULL
    ELSE LET n == strip(name) IN
         IF method = "hash" THEN sha256_hex12(n)
         ELSE LET parts == split(n) IN
              IF Len(parts) = 0 THEN <<>>
              ELSE IF Len(parts) = 1 THEN <<upper(parts[1][1])>> \o <<".">>
              ELSE LET first == upper(parts[1][1])
                       last  == upper(parts[Len(parts)][1])
                   IN <<first, ".", " ", last, ".">>

----------------------------------------------------------------------------
(* Digits-only coercion of cnes (unit transformer). *)

\* Series.str.replace(r'\D', '', regex=True) on one cell
strip_non_digits(s) == SelectSeq(s, IsDigit)

\* transformar_dados / transform_data, the cnes step:
\*   df['cnes'] = df['cnes'].astype(str).str.replace(r'\D', '', regex=True)
\*   df.loc[df['cnes'] == 'nan', 'cnes'] = None
cnes_coerce(v) ==
    LET s == strip_non_digits(astype_str(v)) IN
    IF s = <<"n","a","n">> THEN NULL ELSE s

DigitVal(c) == CHOOSE n \in 0..9 : <<"0","1","2","3","4","5","6","7","8","9">>[n + 1] = c

RECURSIVE Num(_)
Num(s) == IF s = <<>> THEN 0 ELSE 10 * Num(SubSeq(s, 1, Len(s) - 1)) + DigitVal(s[Len(s)])

AllDigits(s) == \A i \in 1..Len(s) : IsDigit(s[i])

----------------------------------------------------------------------------
(* Tri-state boolean and decimal-coordinate coercions (unit transformer). *)

\* Python's True and False as cell values; None is NULL
PyTrue == <<"<True>">>
PyFalse == <<"<False>">>

\* str.lower() on a text
str_lower(s) == [i \in 1..Len(s) |-> IF s[i] = "Ã" THEN "ã" ELSE lower(s[i])]

TrueTokens ==
    { <<"1">>, <<"1",".","0">>, <<"t","r","u","e">>, <<"t">>, <<"s","i","m">>,
      <<"s">>, <<"y","e","s">>, <<"y">> }
FalseTokens ==
    { <<"0">>, <<"0",".","0">>, <<"f","a","l","s","e">>, <<"f">>, <<"n","a","o">>,
      <<"n","ã","o">>, <<"n">>, <<"n","o">> }

\* faulty variant: the token is compared without lower-casing
para_booleano_cased(valor) ==
    IF valor = NULL \/ strip(valor) = <<>> \/ str_lower(valor) = <<"n","a","n">>
    THEN NULL
    ELSE LET texto == strip(valor) IN
         IF texto \in TrueTokens THEN PyTrue
         ELSE IF texto \in FalseTokens THEN PyFalse
         ELSE NULL

\* para_booleano / to_bool
para_booleano(valor) ==
    IF valor = NULL \/ strip(valor) = <<>> \/ str_lower(valor) = <<"n","a","n">>
    THEN NULL
    ELSE LET texto == str_lower(strip(valor)) IN
         IF texto \in TrueTokens THEN PyTrue
         ELSE IF texto \in FalseTokens THEN PyFalse
         ELSE NULL

\* a float as a cell value: mantissa / 10^scale, trailing zeros removed
RECURSIVE Float(_, _)
Float(mantissa, scale) ==
    IF mantissa = 0 THEN <<"<float>", 0, 0>>
    ELSE IF scale > 0 /\ mantissa % 10 = 0 THEN Float(mantissa \div 10, scale - 1)
    ELSE <<"<float>", mantissa, scale>>

IsFloat(v) == Len(v) = 3 /\ v[1] = "<float>"

\* Series.str.replace(',', '.') on one cell
replace_comma(s) == [i \in 1..Len(s) |-> IF s[i] = "," THEN "." ELSE s[i]]

\* pd.to_numeric(errors='coerce') on one text cell: an optional sign, digits
\* with at most one decimal point and at least one digit; anything else is NaN
to_numeric(s) ==
    LET signed == s # <<>> /\ s[1] \in {"-", "+"}
        body == IF signed THEN Tail(s) ELSE s
        dots == {i \in 1..Len(body) : body[i] = "."}
        cut == IF dots = {} THEN Len(body) + 1 ELSE CHOOSE i \in dots : TRUE
        ip == SubSeq(body, 1, cut - 1)
        fp == SubSeq(body, cut + 1, Len(body))
    IN  IF Cardinality(dots) > 1 \/ ~AllDigits(ip) \/ ~AllDigits(fp)
           \/ Len(ip) + Len(fp) = 0
        THEN NULL
        ELSE LET m == Num(ip \o fp) IN
             Float(IF signed /\ s[1] = "-" THEN 0 - m ELSE m, Len(fp))

\* faulty variant: the comma is not replaced before the numeric parse
coord_coerce_no_replace(v) == to_numeric(astype_str(v))

\* transformar_dados / transform_data, the coordinate step on one cell:
\*   df[coord] = df[coord].astype(str).str.replace(',', '.')
\*   df[coord] = pd.to_numeric(df[coord], errors='coerce')
coord_coerce(v) == to_numeric(replace_comma(astype_str(v)))

IsIsoDate(s) ==
    /\ Len(s) = 10
    /\ AllDigits(SubSeq(s, 1, 4)) /\ s[5] = "-"
    /\ AllDigits(SubSeq(s, 6, 7)) /\ s[8] = "-"
    /\ AllDigits(SubSeq(s, 9, 10))
    /\ Num(SubSeq(s, 6, 7)) \in 1..12 /\ Num(SubSeq(s, 9, 10)) \in 1..31

IsIsoTime(s) ==
    /\ Len(s) = 8
    /\ AllDigits(SubSeq(s, 1, 2)) /\ s[3] = ":"
    /\ AllDigits(SubSeq(s, 4, 5)) /\ s[6] = ":"
    /\ AllDigits(SubSeq(s, 7, 8))
    /\ Num(SubSeq(s, 1, 2)) < 24 /\ Num(SubSeq(s, 4, 5)) < 60 /\ Num(SubSeq(s, 7, 8)) < 60

\* pd.to_datetime(cell, errors="coerce") on the ISO forms "YYYY-MM-DD" and
\* "YYYY-MM-DD HH:MM:SS": the timestamp as <<y, m, d, H, M, S>>; any other
\* text, and a missing cell, is NaT
to_datetime(v) ==
    IF v = NULL THEN NULL
    ELSE IF IsIsoDate(v)
    THEN <<Num(SubSeq(v, 1, 4)), Num(SubSeq(v, 6, 7)), Num(SubSeq(v, 9, 10)), 0, 0, 0>>
    ELSE IF Len(v) = 19 /\ IsIsoDate(SubSeq(v, 1, 10)) /\ v[11] = " "
            /\ IsIsoTime(SubSeq(v, 12, 19))
    THEN <<Num(SubSeq(v, 1, 4)), Num(SubSeq(v, 6, 7)), Num(SubSeq(v, 9, 10)),
           Num(SubSeq(v, 12, 13)), Num(SubSeq(v, 15, 16)), Num(SubSeq(v, 18, 19))>>
    ELSE NULL

----------------------------------------------------------------------------
(* Unit transformer.  A DataFrame is [cols: set of column names,           *)
(* rows: sequence of functions from cols to cell values].                  *)

\* MAPA_COLUNAS / COLUMN_MAP (the two copies hold the same mapping)
MAPA_COLUNAS ==
    [X |-> "latitude", Y |-> "longitude", NOME |-> "nome_unidade",
     TIPO_UNIDADE |-> "tipo", ENDERECO |-> "endereco", BAIRRO |-> "bairro",
     TELEFONE |-> "telefone", EMAIL |-> "email",
     HORARIO_SEMANA |-> "horario_semana", HORARIO_SABADO |-> "horario_sabado",
     TIPO_ABC |-> "tipo_abc", CNES |-> "cnes",
     DATA_INAUGURACAO |-> "data_inauguracao", Flg_Ativo |-> "ativo",
     OBJECTID |-> "objectid", GlobalID |-> "globalid", CAP |-> "cap",
     EQUIPES |-> "equipes"]

MapaValues == {MAPA_COLUNAS[k] : k \in DOMAIN MAPA_COLUNAS}

\* df.rename(columns=MAPA_COLUNAS): exact, case-sensitive key lookup
RenameCol(c) == IF c \in DOMAIN MAPA_COLUNAS THEN MAPA_COLUNAS[c] ELSE c
SourceOf(df, c) == CHOOSE k \in df.cols : RenameCol(k) = c

df_rename(df) ==
    LET newcols == {RenameCol(c) : c \in df.cols} IN
    [cols |-> newcols,
     rows |-> [i \in 1..Len(df.rows) |->
                 [c \in newcols |-> df.rows[i][SourceOf(df, c)]]]]

\* df[col] = constant: adds the column when absent
SetCol(df, col, v) ==
    [cols |-> df.cols \cup {col},
     rows |-> [i \in 1..Len(df.rows) |->
                 [c \in df.cols \cup {col} |-> IF c = col THEN v ELSE df.rows[i][c]]]]

\* df.dropna(subset=[col]): the rows whose cell is not missing, in order
IsPresent(row, col) == row[col] # NULL
RECURSIVE KeepPresent(_, _)
KeepPresent(rows, col) ==
    IF rows = <<>> THEN <<>>
    ELSE (IF IsPresent(Head(rows), col) THEN <<Head(rows)>> ELSE <<>>)
         \o KeepPresent(Tail(rows), col)

df_dropna(df, col) == [df EXCEPT !.rows = KeepPresent(df.rows, col)]

\* df[colunas]: projection
df_select(df, colunas) ==
    [cols |-> colunas,
     rows |-> [i \in 1..Len(df.rows) |-> [c \in colunas |-> df.rows[i][c]]]]

\* df['nome_unidade'].astype(str).str.title() on one cell
nome_title(v) == str_title(astype_str(v))

\* if 'cnes' in df.columns: the digits-only coercion of the column
cnes_step(df) ==
    IF "cnes" \notin df.cols THEN df
    ELSE [df EXCEPT !.rows = [i \in 1..Len(df.rows) |->
                                [df.rows[i] EXCEPT !["cnes"] = cnes_coerce(@)]]]

\* df['nome_unidade'] = df['nome_unidade'].astype(str).str.title()
nome_step(df) ==
    [df EXCEPT !.rows = [i \in 1..Len(df.rows) |->
                           [df.rows[i] EXCEPT !["nome_unidade"] = nome_title(@)]]]

RioDeJaneiro == <<"R","i","o"," ","d","e"," ","J","a","n","e","i","r","o">>

\* for coord in ['latitude', 'longitude']: if coord in df.columns: the
\* decimal-coordinate coercion of the column
coord_step(df, coord) ==
    IF coord \notin df.cols THEN df
    ELSE [df EXCEPT !.rows = [i \in 1..Len(df.rows) |->
                                [df.rows[i] EXCEPT ![coord] = coord_coerce(@)]]]

\* x.date() if pd.notnull(x) else None, after pd.to_datetime(errors='coerce')
date_coerce(v) ==
    LET x == to_datetime(v) IN IF x = NULL THEN NULL ELSE SubSeq(x, 1, 3)

\* if 'data_inauguracao' in df.columns: the calendar date of the column
date_step(df) ==
    IF "data_inauguracao" \notin df.cols THEN df
    ELSE [df EXCEPT !.rows = [i \in 1..Len(df.rows) |->
                                [df.rows[i] EXCEPT !["data_inauguracao"] = date_coerce(@)]]]

\* pd.to_numeric(df['objectid'], errors='coerce') on one cell
objectid_numeric(v) == IF v = NULL THEN NULL ELSE to_numeric(v)

\* .astype('Int64') raises TypeError on a float that is not a whole number
objectid_raises(df) ==
    /\ "objectid" \in df.cols
    /\ \E i \in 1..Len(df.rows) :
          LET x == objectid_numeric(df.rows[i]["objectid"]) IN x # NULL /\ x[3] # 0

\* if 'objectid' in df.columns: the nullable integer of the column
objectid_step(df) ==
    IF "objectid" \notin df.cols THEN df
    ELSE [df EXCEPT !.rows = [i \in 1..Len(df.rows) |->
            [df.rows[i] EXCEPT !["objectid"] =
                LET x == objectid_numeric(@) IN
                IF x = NULL THEN NULL ELSE <<"<int>", x[2]>>]]]

\* if 'ativo' in df.columns: df['ativo'].apply(para_booleano)
ativo_step(df) ==
    IF "ativo" \notin df.cols THEN df
    ELSE [df EXCEPT !.rows = [i \in 1..Len(df.rows) |->
                                [df.rows[i] EXCEPT !["ativo"] = para_booleano(@)]]]

\* colunas_validas = [valor for valor in MAPA_COLUNAS.values() if valor in df.columns]
colunas_validas(df) == MapaValues \cap df.cols

\* transformar_dados (scripts/transform_unidades.py) and transform_data
\* (transform_unidades.py).  Returns the cleaned frame and the dropped-row
\* count the scripts copy logs; astype('Int64') on a fractional objectid
\* raises TypeError and df['nome_unidade'] on a frame without that column
\* raises KeyError.
transformar_dados(df_bruto) ==
    LET d1 == df_rename(df_bruto)
        d2 == date_step(coord_step(coord_step(d1, "latitude"), "longitude"))
    IN  IF objectid_raises(d2)
        THEN [raised |-> "TypeError", df |-> d2, omitidas |-> 0]
        ELSE
        LET d3 == ativo_step(cnes_step(objectid_step(d2))) IN
        IF "nome_unidade" \notin d3.cols
        THEN [raised |-> "KeyError", df |-> d3, omitidas |-> 0]
        ELSE LET d4 == SetCol(nome_step(d3), "municipio", RioDeJaneiro)
                 linhas_antes == Len(d4.rows)
                 d5 == df_dropna(d4, "nome_unidade")
             IN [raised |-> "no",
                 df |-> df_select(d5, colunas_validas(d5)),
                 omitidas |-> linhas_antes - Len(d5.rows)]

----------------------------------------------------------------------------
(* The store and the units loader. *)

Writers == {"w1", "w2"}
Copies == {"scripts", "root"}     \* scripts/transform_unidades.py, transform_unidades.py
EnvNames == {"none", "SUPABASE_DB_URL", "DATABASE_URL"}

RECURSIVE BagOfSeq(_)
BagOfSeq(s) == IF s = <<>> THEN EmptyBag ELSE SetToBag({Head(s)}) (+) BagOfSeq(Tail(s))

\* os.getenv('SUPABASE_DB_URL') or os.getenv("DATABASE_URL") in the scripts
\* copy; os.getenv('SUPABASE_DB_URL') alone in the root copy
db_url_found ==
    IF copy = "scripts" THEN env # "none" ELSE env = "SUPABASE_DB_URL"

\* faulty variant: erases nothing (the statement names another table)
truncate_table_noop(tabela, df) == tabela

\* faulty variant: skips the erase when there is nothing to load
truncate_table_unless_empty(tabela, df) == IF df.rows = <<>> THEN tabela ELSE EmptyBag

\* TRUNCATE TABLE ... RESTART IDENTITY CASCADE, issued whatever len(df) is
truncate_table(tabela, df) == EmptyBag

\* faulty variant: replaces the table by the frame (if_exists='replace')
to_sql_replace(tabela, df) == BagOfSeq(df.rows)

\* df.to_sql(nome_tabela, if_exists='append', index=False, method='multi')
to_sql_append(tabela, df) == tabela (+) BagOfSeq(df.rows)

\* faulty variant: the rows sent before the failure stay in the table
to_sql_failed_partial(tabela, df) == tabela (+) BagOfSeq(df.rows)

\* df.to_sql raises: its INSERT takes no effect, and nothing is put back
to_sql_failed(tabela, df) == tabela

EmptyFrame == [cols |-> {}, rows |-> <<>>]

\* the queue side of the store stays as constructed while the units pipeline runs
QueueParked ==
    /\ qscript = "scripts/main.py"
    /\ anonymize_method = "initials"
    /\ fila_regulacao = EmptyBag
    /\ filaCols = {}
    /\ etl = [pc |-> "idle", antes |-> <<>>, depois |-> <<>>, df |-> EmptyFrame,
              outcome |-> "none", logged |-> FALSE, raised |-> FALSE]
    /\ gen = [outcome |-> "none", logged |-> FALSE, raised |-> FALSE]
    /\ copias = 0

\* no entry in the dashboard's data cache
NoCache == [valid |-> FALSE, age |-> 0, df |-> EmptyBag, falhou |-> FALSE]

\* the dashboard script before its first run
DashIdle == [pc |-> "idle", shown |-> "none", total |-> 0,
             rendeu |-> FALSE, consultou |-> FALSE, raised |-> FALSE]

\* the dashboard stays as constructed while the pipelines run
DashParked ==
    /\ cache = NoCache
    /\ engine = "unset"
    /\ storeUp = TRUE
    /\ dash = DashIdle
    /\ sinceQuery = -1
    /\ cleared = FALSE

\* a pipeline process between runs
LoaderIdle ==
    [pc |-> "idle", df_bruto |-> EmptyFrame, df_limpo |-> EmptyFrame,
     omitidas |-> 0, erase |-> "none", apagadas |-> 0]

\* no load has completed yet
NoLoad == [done |-> FALSE, df_limpo |-> EmptyFrame, apagadas |-> 0, abortadas |-> 0]

NOME_upa == <<"u","p","a">>

RawUnitRows ==
    { [NOME |-> NOME_upa, CNES |-> <<"7","-","7">>],
      [NOME |-> NULL,     CNES |-> NULL] }

\* number of rows of the raw frame whose NOME is missing
SemNome(df) == Cardinality({i \in 1..Len(df.rows) : df.rows[i]["NOME"] = NULL})

RawUnitFrames ==
    {[cols |-> {"NOME", "CNES"}, rows |-> r] : r \in SeqsUpTo(RawUnitRows, MaxUnitRows)}

InLoad(w) == loader[w].pc \in {"truncate", "append"}
Quiescent == \A w \in Writers : loader[w].pc = "idle"

\* iniciar_fluxo_unidades / main up to the connection: read the CSV, transform,
\* write the backup, then carregar_dados_no_banco / load_to_db up to create_engine
StartFlow(w) ==
    /\ loader[w].pc = "idle"
    /\ runs < MaxRuns
    /\ runs' = runs + 1
    /\ \E bruto \in RawUnitFrames, csvExists \in BOOLEAN :
         LET t == transformar_dados(bruto) IN
         IF ~csvExists
         THEN \* the input file is missing: logged, early return
              UNCHANGED <<loader, overlapped>>
         ELSE IF ~db_url_found
         THEN \* scripts: logger.error + raise ValueError, caught and logged by
              \* iniciar_fluxo_unidades; root: create_engine(None) raises, caught
              \* and printed by main
              UNCHANGED <<loader, overlapped>>
         ELSE /\ loader' = [loader EXCEPT ![w] =
                   [LoaderIdle EXCEPT !.pc = "truncate",
                                      !.df_bruto = bruto, !.df_limpo = t.df,
                                      !.omitidas = t.omitidas]]
              /\ overlapped' = (overlapped \/ \E o \in Writers \ {w} : InLoad(o))
    /\ UNCHANGED <<unidades_saude, unidadesExists, everFailed, lastLoad, issued>>

\* the TRUNCATE transaction commits
TruncateOk(w) ==
    /\ loader[w].pc = "truncate"
    /\ unidadesExists
    /\ unidades_saude' = truncate_table(unidades_saude, loader[w].df_limpo)
    /\ issued' = issued \cup {"TRUNCATE unidades_saude"}
    /\ loader' = [loader EXCEPT ![w].pc = "append", ![w].erase = "ok",
                                ![w].apagadas = BagCardinality(unidades_saude)]
    /\ UNCHANGED <<unidadesExists, overlapped, everFailed, lastLoad>>

\* the TRUNCATE fails (store unreachable, table missing); the scripts copy
\* logs a warning and goes on to the append, the root copy lets the
\* exception reach main, which prints it
TruncateFail(w) ==
    /\ loader[w].pc = "truncate"
    /\ issued' = issued \cup {"TRUNCATE unidades_saude"}
    /\ everFailed' = TRUE
    /\ IF copy = "scripts"
       THEN loader' = [loader EXCEPT ![w].pc = "append", ![w].erase = "fail"]
       ELSE loader' = [loader EXCEPT ![w] = LoaderIdle]
    /\ UNCHANGED <<unidades_saude, unidadesExists, overlapped, lastLoad>>

\* to_sql commits: the table is created when absent, the rows are appended
AppendOk(w) ==
    /\ loader[w].pc = "append"
    /\ unidades_saude' = to_sql_append(unidades_saude, loader[w].df_limpo)
    /\ unidadesExists' = TRUE
    /\ issued' = issued \cup {"INSERT unidades_saude"}
    /\ loader' = [loader EXCEPT ![w] = LoaderIdle]
    /\ lastLoad' = [done |-> TRUE, df_limpo |-> loader[w].df_limpo,
                    apagadas |-> loader[w].apagadas, abortadas |-> lastLoad.abortadas]
    /\ UNCHANGED <<overlapped, everFailed>>

\* to_sql fails: nothing is appended, the exception is logged and re-raised
\* to the flow, which logs it
AppendFail(w) ==
    /\ loader[w].pc = "append"
    /\ unidades_saude' = to_sql_failed(unidades_saude, loader[w].df_limpo)
    /\ issued' = issued \cup {"INSERT unidades_saude"}
    /\ everFailed' = TRUE
    /\ loader' = [loader EXCEPT ![w] = LoaderIdle]
    /\ lastLoad' = [lastLoad EXCEPT !.abortadas = @ + 1]
    /\ UNCHANGED <<unidadesExists, overlapped>>

UnitsInit ==
    /\ arg = NULL /\ ret = NULL /\ called = "none"
    /\ env \in EnvNames
    /\ copy \in Copies
    /\ issued = {}
    /\ unidades_saude = EmptyBag
    /\ unidadesExists \in BOOLEAN
    /\ loader = [w \in Writers |-> LoaderIdle]
    /\ lastLoad = NoLoad
    /\ overlapped = FALSE
    /\ everFailed = FALSE
    /\ runs = 0
    /\ QueueParked
    /\ DashParked

UnitsNext ==
    \E w \in Writers :
        \/ StartFlow(w) /\ UNCHANGED <<pureVars, env, copy, queueVars, dashVars>>
        \/ TruncateOk(w) /\ UNCHANGED <<pureVars, env, copy, runs, queueVars, dashVars>>
        \/ TruncateFail(w) /\ UNCHANGED <<pureVars, env, copy, runs, queueVars, dashVars>>
        \/ AppendOk(w) /\ UNCHANGED <<pureVars, env, copy, runs, queueVars, dashVars>>
        \/ AppendFail(w) /\ UNCHANGED <<pureVars, env, copy, runs, queueVars, dashVars>>

SpecUnits == UnitsInit /\ [][UnitsNext]_vars

----------------------------------------------------------------------------
(* Queue ETL: scripts/main.py, main.py and etl.py. *)

\* faulty variant: is drop_duplicates(keep=False): a repeated row is removed altogether
drop_duplicates_keep_none(rows) ==
    SelectSeq(rows, LAMBDA r : Cardinality({i \in 1..Len(rows) : rows[i] = r}) = 1)

\* DataFrame.drop_duplicates(): the first occurrence of each row, in order
\* (missing cells compare equal to each other)
drop_duplicates(rows) ==
    LET keep == {i \in 1..Len(rows) : \A j \in 1..(i - 1) : rows[j] # rows[i]}
        F[i \in 0..Len(rows)] ==
            IF i = 0 THEN <<>>
            ELSE IF i \in keep THEN Append(F[i - 1], rows[i]) ELSE F[i - 1]
    IN F[Len(rows)]

QueueScripts == {"scripts/main.py", "main.py", "etl.py"}
Methods == {"initials", "hash"}

\* colunas_finais of each copy
colunas_finais(script) ==
    IF script = "main.py"
    THEN {"id_paciente", "nome_anonimo", "gravidade", "unidade_origem", "data_solicitacao"}
    ELSE {"id_paciente", "nome_anonimo", "gravidade", "unidade_origem",
          "procedimento_solicitado", "data_solicitacao"}

\* the columns CREATE TABLE IF NOT EXISTS public.fila_regulacao gives the table
\* (the bigserial id is generated by the store and left out)
create_table_cols(script) == colunas_finais(script)

\* faulty variant: stores the name as it came
anonimizar_raw(script, method, nome) == nome

\* the anonymizer each copy applies to nome_paciente
anonimizar(script, method, nome) ==
    IF script = "scripts/main.py" THEN anonimizar_nome(nome)
    ELSE IF script = "main.py" THEN initials(nome)
    ELSE anonymize_name(nome, method)

\* df["data_solicitacao"] = pd.to_datetime(df["data_solicitacao"], errors="coerce")
data_step(df) ==
    [df EXCEPT !.rows = [i \in 1..Len(df.rows) |->
                           [df.rows[i] EXCEPT !["data_solicitacao"] = to_datetime(@)]]]

\* df["nome_anonimo"] = df["nome_paciente"].apply(...)
anon_step(script, method, df) ==
    [cols |-> df.cols \cup {"nome_anonimo"},
     rows |-> [i \in 1..Len(df.rows) |->
                 [c \in df.cols \cup {"nome_anonimo"} |->
                     IF c = "nome_anonimo"
                     THEN anonimizar(script, method, df.rows[i]["nome_paciente"])
                     ELSE df.rows[i][c]]]]

\* extrair_e_transformar / load_and_transform / the head of run_etl:
\* the frame after to_datetime, after drop_duplicates, and the final frame
extrair_e_transformar(script, method, csv) ==
    LET d1 == data_step(csv)
        d2 == [d1 EXCEPT !.rows = drop_duplicates(d1.rows)]
        d3 == anon_step(script, method, d2)
        \* scripts/main.py keeps the final columns that are present; the other
        \* two select them all (they are all present here)
        colunas == colunas_finais(script) \cap d3.cols
    IN [antes |-> d1.rows, depois |-> d2.rows, df |-> df_select(d3, colunas)]

\* a frame's rows as rows of a table with the given columns: absent cells null
PadRows(df, cols) ==
    [i \in 1..Len(df.rows) |->
        [c \in cols |-> IF c \in df.cols THEN df.rows[i][c] ELSE NULL]]

PadFrame(df, cols) == [cols |-> cols, rows |-> PadRows(df, cols)]

Vermelho == <<"V","e","r","m","e","l","h","o">>
Verde == <<"V","e","r","d","e">>
Ecocardiograma == <<"E","c","o">>
CirurgiaGeral == <<"C","i","r">>
Upa == <<"U","p","a">>
AnaBraga == <<"a","n","a"," ","b","r","a","g","a">>
Dia1 == <<"2","0","2","4","-","0","1","-","0","2">>
Dia1Hora == Dia1 \o <<" ","0","0",":","0","0",":","0","0">>
Ontem == <<"o","n","t","e","m">>

\* rows of data/dados_regulacao.csv: the first two differ in the text of the
\* timestamp only, and the two texts are the same instant
ExtractRows ==
    { [id_paciente |-> 1, nome_paciente |-> AnaBraga, gravidade |-> Vermelho,
       procedimento_solicitado |-> Ecocardiograma, unidade_origem |-> Upa,
       data_solicitacao |-> Dia1],
      [id_paciente |-> 1, nome_paciente |-> AnaBraga, gravidade |-> Vermelho,
       procedimento_solicitado |-> Ecocardiograma, unidade_origem |-> Upa,
       data_solicitacao |-> Dia1Hora],
      [id_paciente |-> 2, nome_paciente |-> NULL, gravidade |-> Verde,
       procedimento_solicitado |-> NULL, unidade_origem |-> Upa,
       data_solicitacao |-> Ontem] }

ExtractCols == {"id_paciente", "nome_paciente", "gravidade", "procedimento_solicitado",
                "unidade_origem", "data_solicitacao"}

Extracts == {[cols |-> ExtractCols, rows |-> r] : r \in SeqsUpTo(ExtractRows, MaxExtractRows)}

EtlIdle == [pc |-> "idle", antes |-> <<>>, depois |-> <<>>, df |-> EmptyFrame,
            outcome |-> "none", logged |-> FALSE, raised |-> FALSE]

EtlEnd(outcome, logged, raised) ==
    [EtlIdle EXCEPT !.outcome = outcome, !.logged = logged, !.raised = raised]

\* executar_pipeline_etl / main up to the first statement: the environment and
\* file checks and the transformation.  etl.py transforms first and raises
\* RuntimeError on a missing connection string, which nothing catches.
EtlStart ==
    /\ etl.pc = "idle"
    /\ runs < MaxRuns
    /\ runs' = runs + 1
    /\ \E csv \in Extracts, csvExists \in BOOLEAN :
         LET t == extrair_e_transformar(qscript, anonymize_method, csv)
             go == [EtlIdle EXCEPT !.pc = IF qscript = "main.py" THEN "txn" ELSE "create",
                                   !.antes = t.antes, !.depois = t.depois, !.df = t.df]
         IN
         IF qscript = "etl.py"
         THEN IF ~csvExists THEN etl' = EtlEnd("source_not_found", TRUE, FALSE)
              ELSE IF env = "none" THEN etl' = EtlEnd("config_error", FALSE, TRUE)
              ELSE etl' = go
         ELSE IF env = "none" THEN etl' = EtlEnd("config_error", TRUE, FALSE)
              ELSE IF ~csvExists THEN etl' = EtlEnd("source_not_found", TRUE, FALSE)
              ELSE etl' = go
    /\ UNCHANGED <<fila_regulacao, filaCols, copias, issued>>

\* CREATE TABLE IF NOT EXISTS commits: an existing table keeps its columns
EtlCreateOk ==
    /\ etl.pc = "create"
    /\ filaCols' = IF filaCols = {} THEN create_table_cols(qscript) ELSE filaCols
    /\ issued' = issued \cup {"CREATE fila_regulacao"}
    /\ etl' = [etl EXCEPT !.pc = "append"]
    /\ UNCHANGED <<fila_regulacao, copias>>

\* CREATE TABLE fails: scripts/main.py logs and re-raises into the handler of
\* executar_pipeline_etl, which logs; etl.py lets the exception out
EtlCreateFail ==
    /\ etl.pc = "create"
    /\ issued' = issued \cup {"CREATE fila_regulacao"}
    /\ etl' = IF qscript = "etl.py" THEN EtlEnd("store_error", FALSE, TRUE)
              ELSE EtlEnd("store_error", TRUE, FALSE)
    /\ UNCHANGED <<fila_regulacao, filaCols, copias>>

\* to_sql(if_exists="append") commits: every column of the frame is a column
\* of the table
EtlAppendOk ==
    /\ etl.pc = "append"
    /\ etl.df.cols \subseteq filaCols
    /\ fila_regulacao' = to_sql_append(fila_regulacao, PadFrame(etl.df, filaCols))
    /\ issued' = issued \cup {"INSERT fila_regulacao"}
    /\ copias' = copias + 1
    /\ etl' = EtlEnd("ok", TRUE, FALSE)
    /\ UNCHANGED filaCols

\* to_sql fails (store error, or a column the table lacks): logged and
\* re-raised; executar_pipeline_etl catches it, etl.py does not
EtlAppendFail ==
    /\ etl.pc = "append"
    /\ issued' = issued \cup {"INSERT fila_regulacao"}
    /\ etl' = IF qscript = "etl.py" THEN EtlEnd("store_error", TRUE, TRUE)
              ELSE EtlEnd("store_error", TRUE, FALSE)
    /\ UNCHANGED <<fila_regulacao, filaCols, copias>>

\* main.py insert_into_db: CREATE TABLE IF NOT EXISTS and to_sql in one
\* transaction, which commits
EtlTxnOk ==
    /\ etl.pc = "txn"
    /\ LET cols == IF filaCols = {} THEN create_table_cols(qscript) ELSE filaCols IN
       /\ etl.df.cols \subseteq cols
       /\ filaCols' = cols
       /\ fila_regulacao' = to_sql_append(fila_regulacao, PadFrame(etl.df, cols))
    /\ issued' = issued \cup {"CREATE fila_regulacao", "INSERT fila_regulacao"}
    /\ copias' = copias + 1
    /\ etl' = EtlEnd("ok", TRUE, FALSE)

\* the transaction of main.py fails and rolls back; the error is printed
EtlTxnFail ==
    /\ etl.pc = "txn"
    /\ issued' = issued \cup {"CREATE fila_regulacao"}
    /\ etl' = EtlEnd("store_error", TRUE, FALSE)
    /\ UNCHANGED <<fila_regulacao, filaCols, copias>>

----------------------------------------------------------------------------
(* Synthetic queue generator: scripts/generate_fake_data.py and            *)
(* generate_fake_data.py.                                                  *)

GenCols == {"id_paciente", "nome_anonimo", "gravidade", "procedimento_solicitado",
            "unidade_origem", "data_solicitacao"}

\* unidades_df['nome_unidade'].dropna().tolist() (the root copy has no dropna)
unidades_banco ==
    {r["nome_unidade"] : r \in BagToSet(unidades_saude)}
        \ (IF copy = "scripts" THEN {NULL} ELSE {})

\* the rows one pass of the generating loop can produce; random.choice and
\* random.randint are inputs
GenRowChoices ==
    {[id_paciente |-> 10000,
      nome_anonimo |-> <<"A", ".", l, ".">>,
      gravidade |-> g,
      procedimento_solicitado |-> Ecocardiograma,
      unidade_origem |-> u,
      data_solicitacao |-> <<2024, 1, 2, 3, 0, 0>>]
        : l \in {"A", "Z"}, g \in {Vermelho}, u \in unidades_banco}

GenEnd(outcome, logged, raised) ==
    [outcome |-> outcome, logged |-> logged, raised |-> raised]

\* the connection string the generator finds: the scripts copy reads both
\* names, the root copy SUPABASE_DB_URL alone
gen_db_url_found ==
    IF copy = "scripts" THEN env # "none" ELSE env = "SUPABASE_DB_URL"

\* gerar_fila_ficticia / generate_fake_fila, one run.  The SELECT and the
\* TRUNCATE-and-append transaction are one step each way: no other process
\* of this specification writes the units table, and the generator is run
\* between runs of the ETL.
GenRun ==
    /\ runs < MaxRuns
    /\ runs' = runs + 1
    /\ etl.pc = "idle"
    /\ \E n \in 0..MaxGenRows, selectOk \in BOOLEAN, txnOk \in BOOLEAN :
       \E linhas \in [1..n -> GenRowChoices] :
         IF ~gen_db_url_found
         THEN \* scripts: logged, ValueError caught, return; root:
              \* create_engine(None) raises while the module is loading
              /\ gen' = IF copy = "scripts" THEN GenEnd("config_error", TRUE, FALSE)
                        ELSE GenEnd("config_error", FALSE, TRUE)
              /\ UNCHANGED <<fila_regulacao, copias, issued>>
         ELSE IF ~(selectOk /\ unidadesExists)
         THEN /\ gen' = IF copy = "scripts" THEN GenEnd("store_error", TRUE, FALSE)
                        ELSE GenEnd("store_error", FALSE, TRUE)
              /\ issued' = issued \cup {"SELECT unidades_saude"}
              /\ UNCHANGED <<fila_regulacao, copias>>
         ELSE IF unidades_banco = {}
         THEN /\ gen' = GenEnd("no_units", TRUE, FALSE)
              /\ issued' = issued \cup {"SELECT unidades_saude"}
              /\ UNCHANGED <<fila_regulacao, copias>>
         ELSE IF ~(txnOk /\ filaCols # {} /\ GenCols \subseteq filaCols)
         THEN /\ gen' = IF copy = "scripts" THEN GenEnd("store_error", TRUE, FALSE)
                        ELSE GenEnd("store_error", FALSE, TRUE)
              /\ issued' = issued \cup {"SELECT unidades_saude", "TRUNCATE fila_regulacao"}
              /\ UNCHANGED <<fila_regulacao, copias>>
         ELSE /\ fila_regulacao' =
                   to_sql_append(EmptyBag, PadFrame([cols |-> GenCols, rows |-> linhas],
                                                    filaCols))
              /\ copias' = 0
              /\ issued' = issued \cup {"SELECT unidades_saude", "TRUNCATE fila_regulacao",
                                        "INSERT fila_regulacao"}
              /\ gen' = GenEnd("ok", TRUE, FALSE)
    /\ UNCHANGED <<etl, filaCols>>

\* the units table holds what a load of the units pipeline left there; the
\* deployed directory decides the copy of the ETL and of the generator
QueueInit ==
    /\ arg = NULL /\ ret = NULL /\ called = "none"
    /\ env \in EnvNames
    /\ copy \in Copies
    /\ qscript \in QueueScripts
    /\ (copy = "scripts") = (qscript = "scripts/main.py")
    /\ anonymize_method \in (IF qscript = "etl.py" THEN Methods ELSE {"initials"})
    /\ issued = {}
    /\ \E f \in {g \in RawUnitFrames : Len(g.rows) <= 1 /\ SemNome(g) = 0} :
          unidades_saude = BagOfSeq(transformar_dados(f).df.rows)
    /\ unidadesExists = TRUE
    /\ loader = [w \in Writers |-> LoaderIdle]
    /\ lastLoad = NoLoad
    /\ overlapped = FALSE
    /\ everFailed = FALSE
    /\ runs = 0
    /\ fila_regulacao = EmptyBag
    /\ filaCols \in {{}, create_table_cols("main.py"), create_table_cols("etl.py")}
    /\ etl = EtlIdle
    /\ gen = GenEnd("none", FALSE, FALSE)
    /\ copias = 0
    /\ DashParked

queueFrame == <<pureVars, env, copy, qscript, anonymize_method, unitVars, dashVars>>

QueueNext ==
    \/ EtlStart /\ UNCHANGED <<queueFrame, gen>>
    \/ EtlCreateOk /\ UNCHANGED <<queueFrame, gen, runs>>
    \/ EtlCreateFail /\ UNCHANGED <<queueFrame, gen, runs>>
    \/ EtlAppendOk /\ UNCHANGED <<queueFrame, gen, runs>>
    \/ EtlAppendFail /\ UNCHANGED <<queueFrame, gen, runs>>
    \/ EtlTxnOk /\ UNCHANGED <<queueFrame, gen, runs>>
    \/ EtlTxnFail /\ UNCHANGED <<queueFrame, gen, runs>>
    \/ GenRun /\ UNCHANGED queueFrame

SpecQueue == QueueInit /\ [][QueueNext]_vars

\* ---- one run over an extract whose rows differ in one cell only ----

AdaBento == <<"a","d","a"," ","b","e","n","t","o">>

AnaRow ==
    [id_paciente |-> 1, nome_paciente |-> AnaBraga, gravidade |-> Vermelho,
     procedimento_solicitado |-> Ecocardiograma, unidade_origem |-> Upa,
     data_solicitacao |-> Dia1]

\* rows of the extract: the second differs from the first in the patient name
\* only (same initials), the third in the requested procedure only
RunRows ==
    { AnaRow,
      [AnaRow EXCEPT !.nome_paciente = AdaBento],
      [AnaRow EXCEPT !.procedimento_solicitado = CirurgiaGeral] }

RunExtracts == {[cols |-> ExtractCols, rows |-> r] : r \in SeqsUpTo(RunRows, MaxExtractRows)}

RunInit ==
    /\ arg = NULL /\ ret = NULL /\ called = "none"
    /\ env \in EnvNames
    /\ copy \in Copies
    /\ qscript \in QueueScripts
    /\ (copy = "scripts") = (qscript = "scripts/main.py")
    /\ anonymize_method \in (IF qscript = "etl.py" THEN Methods ELSE {"initials"})
    /\ issued = {}
    /\ unidades_saude = EmptyBag
    /\ unidadesExists = TRUE
    /\ loader = [w \in Writers |-> LoaderIdle]
    /\ lastLoad = NoLoad
    /\ overlapped = FALSE
    /\ everFailed = FALSE
    /\ runs = 0
    /\ fila_regulacao = EmptyBag
    /\ filaCols \in {{}, create_table_cols("main.py"), create_table_cols("etl.py")}
    /\ etl = EtlIdle
    /\ gen = GenEnd("none", FALSE, FALSE)
    /\ copias = 0
    /\ DashParked

\* executar_pipeline_etl / main up to the first statement, reading one of the
\* extracts above
RunStart ==
    /\ etl.pc = "idle"
    /\ runs < MaxRuns
    /\ runs' = runs + 1
    /\ \E csv \in RunExtracts, csvExists \in BOOLEAN :
         LET t == extrair_e_transformar(qscript, anonymize_method, csv)
             go == [EtlIdle EXCEPT !.pc = IF qscript = "main.py" THEN "txn" ELSE "create",
                                   !.antes = t.antes, !.depois = t.depois, !.df = t.df]
         IN
         IF qscript = "etl.py"
         THEN IF ~csvExists THEN etl' = EtlEnd("source_not_found", TRUE, FALSE)
              ELSE IF env = "none" THEN etl' = EtlEnd("config_error", FALSE, TRUE)
              ELSE etl' = go
         ELSE IF env = "none" THEN etl' = EtlEnd("config_error", TRUE, FALSE)
              ELSE IF ~csvExists THEN etl' = EtlEnd("source_not_found", TRUE, FALSE)
              ELSE etl' = go
    /\ UNCHANGED <<fila_regulacao, filaCols, copias, issued>>

RunNext ==
    \/ RunStart /\ UNCHANGED <<queueFrame, gen>>
    \/ EtlCreateOk /\ UNCHANGED <<queueFrame, gen, runs>>
    \/ EtlCreateFail /\ UNCHANGED <<queueFrame, gen, runs>>
    \/ EtlAppendOk /\ UNCHANGED <<queueFrame, gen, runs>>
    \/ EtlAppendFail /\ UNCHANGED <<queueFrame, gen, runs>>
    \/ EtlTxnOk /\ UNCHANGED <<queueFrame, gen, runs>>
    \/ EtlTxnFail /\ UNCHANGED <<queueFrame, gen, runs>>

SpecRun == RunInit /\ [][RunNext]_vars

----------------------------------------------------------------------------
(* Dashboard reader: app.py. *)

\* @st.cache_data(ttl=60)
ttl == 60

\* the columns of fila_regulacao the query selects
QueryCols == {"id_paciente", "nome_anonimo", "gravidade", "procedimento_solicitado",
              "unidade_origem", "data_solicitacao"}

\* df['cap'].fillna('N/I')
NI == <<"N", "/", "I">>

\* ON f.unidade_origem = u.nome_unidade: SQL equality, never true of a null
Matches(f, U) ==
    {u \in BagToSet(U) : /\ f["unidade_origem"] # NULL
                         /\ u["nome_unidade"] # NULL
                         /\ u["nome_unidade"] = f["unidade_origem"]}

\* one row of the result: the six queue columns and u.cap, u.latitude,
\* u.longitude, cap after fillna('N/I').astype(str)
JoinedRow(f, cap, latitude, longitude) ==
    [c \in QueryCols \cup {"cap", "latitude", "longitude"} |->
        IF c = "cap" THEN (IF cap = NULL THEN NI ELSE cap)
        ELSE IF c = "latitude" THEN latitude
        ELSE IF c = "longitude" THEN longitude
        ELSE f[c]]

RECURSIVE BagSum(_)
BagSum(parts) ==
    IF parts = {} THEN EmptyBag
    ELSE LET x == CHOOSE x \in parts : TRUE IN
         [r \in {x.row} |-> x.n] (+) BagSum(parts \ {x})

\* the rows a queue row gives with each unit row it matches
MatchedParts(F, U) ==
    {[row |-> JoinedRow(p[1], p[2]["cap"], p[2]["latitude"], p[2]["longitude"]),
      n |-> F[p[1]] * U[p[2]], de |-> p] :
        p \in {q \in BagToSet(F) \X BagToSet(U) : q[2] \in Matches(q[1], U)}}

\* the row a queue row without a matching unit gives: the unit columns null
UnmatchedParts(F, U) ==
    {[row |-> JoinedRow(f, NULL, NULL, NULL), n |-> F[f], de |-> <<f>>] :
        f \in {g \in BagToSet(F) : Matches(g, U) = {}}}

\* faulty variant: INNER JOIN, the queue rows without a unit are left out
inner_join(F, U) == BagSum(MatchedParts(F, U))

\* SELECT ... FROM fila_regulacao f LEFT JOIN unidades_saude u
\*   ON f.unidade_origem = u.nome_unidade, then the cap treatment
left_join(F, U) == BagSum(MatchedParts(F, U) \cup UnmatchedParts(F, U))

\* iniciar_conexao: None without a connection string, else the engine
iniciar_conexao == IF env # "none" THEN "engine" ELSE "none"

\* the body of consultar_dados: what it returns, whether it failed and
\* whether it sent the query
consultar_dados(eng) ==
    IF eng = "none"
    THEN [df |-> EmptyBag, falhou |-> TRUE, consultou |-> FALSE]
    ELSE IF ~(storeUp /\ unidadesExists /\ QueryCols \subseteq filaCols)
    THEN [df |-> EmptyBag, falhou |-> TRUE, consultou |-> TRUE]
    ELSE [df |-> left_join(fila_regulacao, unidades_saude),
          falhou |-> FALSE, consultou |-> TRUE]

\* faulty variant: an entry never expires
cache_hit_forever(c) == c.valid

\* st.cache_data(ttl=60): an entry answers while it is younger than ttl
cache_hit(c) == c.valid /\ c.age < ttl

\* faulty variant: only a successful result is memoized
cache_put_if_ok(r) ==
    IF r.falhou THEN NoCache
    ELSE [valid |-> TRUE, age |-> 0, df |-> r.df, falhou |-> r.falhou]

\* st.cache_data stores whatever consultar_dados returned
cache_put(r) == [valid |-> TRUE, age |-> 0, df |-> r.df, falhou |-> r.falhou]

\* one run of the script: renderizar_dashboard calls consultar_dados through
\* the cache, shows the placeholder when the frame is empty and the panel
\* with its metrics otherwise; with the reload button pressed it then clears
\* the data cache and asks for a rerun
ScriptRun(click) ==
    LET hit == cache_hit(cache)
        eng == IF engine = "unset" THEN iniciar_conexao ELSE engine
        r == IF hit THEN [df |-> cache.df, falhou |-> cache.falhou, consultou |-> FALSE]
             ELSE consultar_dados(eng)
    IN  /\ engine' = IF hit THEN engine ELSE eng
        /\ issued' = IF r.consultou
                      THEN issued \cup {"SELECT fila_regulacao JOIN unidades_saude"}
                      ELSE issued
        /\ sinceQuery' = IF r.consultou THEN 0 ELSE sinceQuery
        /\ cleared' = IF click THEN TRUE ELSE IF r.consultou THEN FALSE ELSE cleared
        /\ cache' = IF click THEN NoCache ELSE IF hit THEN cache ELSE cache_put(r)
        /\ dash' = [pc |-> IF click THEN "rerun" ELSE "idle",
                    shown |-> IF r.df = EmptyBag THEN "placeholder" ELSE "painel",
                    total |-> BagCardinality(r.df),
                    rendeu |-> TRUE, consultou |-> r.consultou, raised |-> FALSE]
        /\ UNCHANGED storeUp

\* a page load or a widget interaction runs the script
Render == dash.pc = "idle" /\ ScriptRun(FALSE)

\* the user presses "Ver novamente" or "Atualizar Cache de Servidor": the
\* script runs with the button set, st.cache_data.clear(), st.rerun()
ClickReload == dash.pc = "idle" /\ ScriptRun(TRUE)

\* the run st.rerun() asked for
Rerun == dash.pc = "rerun" /\ ScriptRun(FALSE)

\* one time unit passes; an age past ttl is not told from ttl
Tick ==
    /\ dash.pc = "idle"
    /\ cache' = [cache EXCEPT !.age = IF cache.valid /\ @ < ttl THEN @ + 1 ELSE @]
    /\ sinceQuery' = IF sinceQuery \in 0..(ttl - 1) THEN sinceQuery + 1 ELSE sinceQuery
    /\ dash' = [dash EXCEPT !.rendeu = FALSE, !.consultou = FALSE]
    /\ UNCHANGED <<engine, storeUp, cleared, issued>>

\* the store goes down or comes back
StoreFlip ==
    /\ dash.pc = "idle"
    /\ storeUp' = ~storeUp
    /\ dash' = [dash EXCEPT !.rendeu = FALSE, !.consultou = FALSE]
    /\ UNCHANGED <<cache, engine, sinceQuery, cleared, issued>>

\* rows of the two tables as the dashboard finds them
FilaRow(origem, gravidade) ==
    [id_paciente |-> 10000, nome_anonimo |-> <<"A", ".", "Z", ".">>,
     gravidade |-> gravidade, procedimento_solicitado |-> Ecocardiograma,
     unidade_origem |-> origem, data_solicitacao |-> <<2024, 1, 2, 3, 0, 0>>]

UnidadeRow(nome, cap) ==
    [nome_unidade |-> nome, cap |-> cap,
     latitude |-> <<"<float>", -432075, 4>>, longitude |-> <<"<float>", -229068, 4>>]

Cms == <<"C","m","s">>

FilaRows == {FilaRow(Upa, Vermelho), FilaRow(Cms, Verde), FilaRow(NULL, Verde)}
UnidadeRows == {UnidadeRow(Upa, <<"3",".","1">>), UnidadeRow(Upa, <<"5",".","2">>),
                UnidadeRow(NULL, NULL)}

\* everything but the dashboard and the two tables stays as constructed
DashFrame ==
    /\ arg = NULL /\ ret = NULL /\ called = "none"
    /\ copy = "scripts"
    /\ issued = {}
    /\ loader = [w \in Writers |-> LoaderIdle]
    /\ overlapped = FALSE /\ everFailed = FALSE /\ lastLoad = NoLoad /\ runs = 0
    /\ qscript = "scripts/main.py" /\ anonymize_method = "initials"
    /\ etl = EtlIdle /\ gen = GenEnd("none", FALSE, FALSE) /\ copias = 0
    /\ cache = NoCache /\ engine = "unset" /\ dash = DashIdle
    /\ sinceQuery = -1 /\ cleared = FALSE

dashFrame == <<pureVars, env, copy, unitVars, runs, queueVars>>

\* the dashboard over time, on a store that holds one queue row and its unit
DashInit ==
    /\ DashFrame
    /\ env \in {"none", "SUPABASE_DB_URL"}
    /\ storeUp \in BOOLEAN
    /\ unidadesExists = TRUE
    /\ unidades_saude = SetToBag({UnidadeRow(Upa, <<"3",".","1">>)})
    /\ filaCols \in {{}, QueryCols}
    /\ fila_regulacao = IF filaCols = {} THEN EmptyBag
                        ELSE SetToBag({FilaRow(Upa, Vermelho)})

DashNext ==
    \/ Render /\ UNCHANGED dashFrame
    \/ ClickReload /\ UNCHANGED dashFrame
    \/ Rerun /\ UNCHANGED dashFrame
    \/ Tick /\ UNCHANGED dashFrame
    \/ StoreFlip /\ UNCHANGED dashFrame

SpecDash == DashInit /\ [][DashNext]_vars

\* the first load of the dashboard over any contents of the two tables
JoinInit ==
    /\ DashFrame
    /\ env = "SUPABASE_DB_URL"
    /\ storeUp = TRUE
    /\ unidadesExists = TRUE
    /\ filaCols = QueryCols
    /\ \E f \in SeqsUpTo(FilaRows, MaxDashRows), u \in SeqsUpTo(UnidadeRows, MaxDashRows) :
          /\ fila_regulacao = BagOfSeq(f)
          /\ unidades_saude = BagOfSeq(u)

JoinNext == Render /\ UNCHANGED dashFrame

SpecJoin == JoinInit /\ [][JoinNext]_vars

----------------------------------------------------------------------------
(* Harness for the pure functions: Init draws the argument, one action per  *)
(* function applies it.                                                     *)

NameAlphabet == {"a", "B", " ", "\t"}

JoaoSilvaOliveira == <<"J","o","a","o"," ","S","i","l","v","a"," ",
                       "O","l","i","v","e","i","r","a">>
Maria == <<"M","a","r","i","a">>

NameInputs == SeqsUpTo(NameAlphabet, MaxNameLen) \cup {NULL, JoaoSilvaOliveira, Maria}

\* the store and the pipelines stay as constructed while a pure function is checked
StoreParked ==
    /\ env = "none"
    /\ copy = "scripts"
    /\ issued = {}
    /\ unidades_saude = EmptyBag
    /\ unidadesExists = FALSE
    /\ loader = [w \in Writers |-> LoaderIdle]
    /\ overlapped = FALSE
    /\ everFailed = FALSE
    /\ lastLoad = NoLoad
    /\ runs = 0
    /\ QueueParked
    /\ DashParked

storeVars == <<env, copy, issued, unidades_saude, unidadesExists, loader, overlapped,
               everFailed, lastLoad, runs, queueVars, dashVars>>

AnonInit ==
    /\ arg \in NameInputs
    /\ ret = NULL
    /\ called = "none"
    /\ StoreParked

CallAnonimizarNome ==
    /\ called = "none"
    /\ ret' = anonimizar_nome(arg)
    /\ called' = "anonimizar_nome"
    /\ UNCHANGED <<arg, storeVars>>

CallInitials ==
    /\ called = "none"
    /\ ret' = initials(arg)
    /\ called' = "initials"
    /\ UNCHANGED <<arg, storeVars>>

CallAnonymizeName ==
    /\ called = "none"
    /\ \E method \in {"initials", "hash"} :
         /\ ret' = anonymize_name(arg, method)
         /\ called' = IF method = "hash" THEN "anonymize_name_hash" ELSE "anonymize_name"
    /\ UNCHANGED <<arg, storeVars>>

AnonNext == CallAnonimizarNome \/ CallInitials \/ CallAnonymizeName

SpecAnon == AnonInit /\ [][AnonNext]_vars

CnesAlphabet == {"n", "a", "7", "-"}

Phone == <<"(","2","1",")"," ","9","8","8","8","8","-","7","7","6","6">>

CnesInputs == SeqsUpTo(CnesAlphabet, MaxCnesLen) \cup {NULL, Phone}

DigitsInit ==
    /\ arg \in CnesInputs
    /\ ret = NULL
    /\ called = "none"
    /\ StoreParked

CallCnesCoerce ==
    /\ called = "none"
    /\ ret' = cnes_coerce(arg)
    /\ called' = "cnes_coerce"
    /\ UNCHANGED <<arg, storeVars>>

DigitsNext == CallCnesCoerce

SpecDigits == DigitsInit /\ [][DigitsNext]_vars

\* the spellings of a token in every mix of letter cases
RECURSIVE CaseVariants(_)
CaseVariants(tok) ==
    IF tok = <<>> THEN {<<>>}
    ELSE {<<c>> \o v : c \in {tok[1], IF tok[1] = "ã" THEN "Ã" ELSE upper(tok[1])},
                      v \in CaseVariants(Tail(tok))}

Paddings == {<<>>, <<" ">>, <<"\t", " ">>}

BoolAlphabet == {"n", "a", "N", " ", "1", "."}

\* cells of the Flg_Ativo column: every accepted token in every letter case,
\* with and without surrounding whitespace, short arbitrary texts, and a
\* missing cell
BoolInputs ==
    {l \o v \o r : l \in Paddings, r \in Paddings,
                   v \in UNION {CaseVariants(tok) : tok \in TrueTokens \cup FalseTokens}}
    \cup SeqsUpTo(BoolAlphabet, MaxBoolLen) \cup {NULL}

BoolInit ==
    /\ arg \in BoolInputs
    /\ ret = NULL
    /\ called = "none"
    /\ StoreParked

CallParaBooleano ==
    /\ called = "none"
    /\ ret' = para_booleano(arg)
    /\ called' = "para_booleano"
    /\ UNCHANGED <<arg, storeVars>>

BoolNext == CallParaBooleano

SpecBool == BoolInit /\ [][BoolNext]_vars

\* cells of the raw units CSV
Lon43Comma == <<"-","4","3",",","2","0","7","5">>
Lon43Dot == <<"-","4","3",".","2","0","7","5">>
Lat22Comma == <<"-","2","2",",","9","0","6","8">>
Lat22Dot == <<"-","2","2",".","9","0","6","8">>
Sim == <<"S","i","m">>

\* one column of a raw frame with n rows: absent, or present under one of
\* the names with one of the cells in each row
Slot(names, cells, n) ==
    {[col |-> c, vals |-> v] : c \in names, v \in [1..n -> cells]}
    \cup {[col |-> "-", vals |-> <<>>]}

\* the raw frame made of the chosen columns
MkFrame(slots, n) ==
    LET present == {o \in slots : o.col # "-"}
        cols == {o.col : o \in present}
    IN  [cols |-> cols,
         rows |-> [i \in 1..n |->
                     [c \in cols |-> (CHOOSE o \in present : o.col = c).vals[i]]]]

\* the raw frame read from the CSV: any subset of the columns NOME, X, Y,
\* Flg_Ativo, OBJECTID and an unmapped column, the first and the fourth also
\* under other letter cases
TransformInit ==
    /\ \E n \in 0..MaxTransformRows :
         \E nome \in Slot({"NOME", "Nome", "nome"}, {NOME_upa, NULL}, n),
            x \in Slot({"X"}, {Lon43Comma, Lon43Dot, <<"4","x">>}, n),
            y \in Slot({"Y"}, {Lat22Comma, Lat22Dot, NULL}, n),
            ativo \in Slot({"Flg_Ativo", "FLG_ATIVO"}, {Sim}, n),
            objectid \in Slot({"OBJECTID"}, {<<"7">>, <<"1",".","5">>}, n),
            outra \in Slot({"FONTE"}, {<<"z">>}, n) :
              arg = MkFrame({nome, x, y, ativo, objectid, outra}, n)
    /\ ret = NULL
    /\ called = "none"
    /\ StoreParked

CallTransformarDados ==
    /\ called = "none"
    /\ ret' = transformar_dados(arg)
    /\ called' = "transformar_dados"
    /\ UNCHANGED <<arg, storeVars>>

TransformNext == CallTransformarDados

SpecTransform == TransformInit /\ [][TransformNext]_vars

----------------------------------------------------------------------------
(* Properties. *)

\* C1: every raw row whose NOME is missing is absent from the transformer's
\* output (the output holds the other rows only) and the logged count of
\* dropped rows is the number of such rows.
C1_MissingNameDropped ==
    \A w \in Writers :
        loader[w].pc # "idle" =>
            /\ loader[w].omitidas = SemNome(loader[w].df_bruto)
            /\ Len(loader[w].df_limpo.rows)
                 = Len(loader[w].df_bruto.rows) - SemNome(loader[w].df_bruto)

\* C2: after loader runs by a single writer in which every store step
\* succeeded, the units table holds exactly the rows of the last cleaned
\* frame, and nothing of an earlier load.
C2_LastLoadReplaces ==
    (Quiescent /\ ~overlapped /\ ~everFailed /\ lastLoad.done)
        => unidades_saude = BagOfSeq(lastLoad.df_limpo.rows)

\* C2 witness: a load of an empty frame has erased a table that held rows.
C2_EmptyLoadErased ==
    /\ Quiescent /\ ~overlapped /\ ~everFailed /\ lastLoad.done
    /\ lastLoad.df_limpo.rows = <<>>
    /\ lastLoad.apagadas > 0
    /\ unidades_saude = EmptyBag

\* C3: when the erase of a load fails, the load aborts there: the process
\* goes back to idle without reaching the append, and no later step of that
\* load changes the table.
C3_EraseFailureAborts ==
    [][\A w \in Writers :
          /\ (loader[w].pc = "truncate" /\ loader'[w].pc # "truncate"
                /\ loader'[w].erase # "ok")
               => (loader'[w].pc = "idle" /\ unidades_saude' = unidades_saude)
          /\ (loader[w].erase = "fail" /\ loader'[w] # loader[w])
               => unidades_saude' = unidades_saude]_vars

\* C4: when every store step committed and all loaders are done, no row of
\* the last completed load is missing from the table, and the table holds
\* anything beyond that load (duplicate or stale rows) only if two runs
\* overlapped; a single writer never ends in such a state.
C4_AnomalyOnlyByRace ==
    (Quiescent /\ ~everFailed /\ lastLoad.done) =>
        /\ BagOfSeq(lastLoad.df_limpo.rows) \sqsubseteq unidades_saude
        /\ (unidades_saude # BagOfSeq(lastLoad.df_limpo.rows) => overlapped)

\* C4 witness: two interleaved loads of the same frame ended with every row twice.
C4_RaceDuplicates ==
    /\ Quiescent /\ ~everFailed /\ overlapped /\ lastLoad.done
    /\ lastLoad.df_limpo.rows # <<>>
    /\ unidades_saude = BagOfSeq(lastLoad.df_limpo.rows) (+) BagOfSeq(lastLoad.df_limpo.rows)

\* the positions of arg that start a token (a maximal run of non-whitespace)
TokenStarts(s) == {i \in 1..Len(s) : ~IsSpace(s[i]) /\ (i = 1 \/ IsSpace(s[i-1]))}
MinOf(S) == CHOOSE x \in S : \A y \in S : x <= y
MaxOf(S) == CHOOSE x \in S : \A y \in S : x >= y

\* C6: the initials anonymizers map a name of two or more tokens to the
\* upper-cased first letters of its first and last token as "F. L.", a
\* single-token name to "F.", and a missing name to null; nothing else of the
\* name is in the result.
C6_Initials ==
    called \in {"anonimizar_nome", "initials", "anonymize_name"} =>
        IF arg = NULL THEN ret = NULL
        ELSE LET T == TokenStarts(arg) IN
             /\ Cardinality(T) >= 2 =>
                  ret = <<upper(arg[MinOf(T)]), ".", " ", upper(arg[MaxOf(T)]), ".">>
             /\ Cardinality(T) = 1 => ret = <<upper(arg[MinOf(T)]), ".">>

\* C6 witness: "Joao Silva Oliveira" has become "J. O.".
C6_JoaoSilvaOliveira ==
    /\ called = "anonimizar_nome"
    /\ arg = JoaoSilvaOliveira
    /\ ret = <<"J", ".", " ", "O", ".">>

\* C10: the digits-only coercion of cnes returns the input without its
\* non-digit characters, and null for the empty string, a missing value and
\* the text "nan".
C10_DigitsOnly ==
    called = "cnes_coerce" =>
        IF arg \in {NULL, <<>>, <<"n","a","n">>} THEN ret = NULL
        ELSE ret = SelectSeq(arg, LAMBDA c : IsDigit(c))

\* C10 witness: "(21) 98888-7766" has become "21988887766".
C10_PhoneDigits ==
    /\ called = "cnes_coerce"
    /\ arg = Phone
    /\ ret = <<"2","1","9","8","8","8","8","7","7","6","6">>

\* the text is what an anonymizer or the generator can produce: null, empty,
\* "F.", "F. L.", "F.L." or 12 hexadecimal characters
IsHex(c) == \E i \in 1..16 : HexDigits[i] = c
IsDigest(s) ==
    \/ s = NULL
    \/ s = <<>>
    \/ Len(s) = 2 /\ s[2] = "."
    \/ Len(s) = 5 /\ s[2] = "." /\ s[3] = " " /\ s[5] = "."
    \/ Len(s) = 4 /\ s[2] = "." /\ s[4] = "."
    \/ Len(s) = 12 /\ \A i \in 1..12 : IsHex(s[i])

RawNames == {r.nome_paciente : r \in ExtractRows} \ {NULL}

\* C5: no row of the queue table holds a raw patient name: nome_paciente is
\* not a column of the table or of any row, and the stored identifier is an
\* initials digest or a 12-character hexadecimal hash, never the name.
C5_NoRawName ==
    /\ "nome_paciente" \notin filaCols
    /\ \A r \in BagToSet(fila_regulacao) :
          /\ "nome_paciente" \notin DOMAIN r
          /\ IsDigest(r["nome_anonimo"])
          /\ r["nome_anonimo"] \notin RawNames

\* C5 witness: the ETL has stored "ana braga" as "A. B.".
C5_AnaStoredAsInitials ==
    /\ etl.outcome = "ok"
    /\ \E r \in BagToSet(fila_regulacao) : r["nome_anonimo"] = <<"A", ".", " ", "B", ".">>

\* C7: of the rows the de-duplication step receives, each group of fully
\* identical rows leaves exactly one row, every row that differs from all
\* others is kept, and nothing else is in the output.
C7_OnePerGroup ==
    etl.pc # "idle" =>
        /\ \A i \in 1..Len(etl.antes) :
              Cardinality({j \in 1..Len(etl.depois) : etl.depois[j] = etl.antes[i]}) = 1
        /\ \A j \in 1..Len(etl.depois) :
              \E i \in 1..Len(etl.antes) : etl.antes[i] = etl.depois[j]

\* C7 witness: two identical rows went in, one row came out.
C7_TwoIdenticalRows ==
    /\ etl.pc # "idle"
    /\ Len(etl.antes) = 2 /\ etl.antes[1] = etl.antes[2]
    /\ Len(etl.depois) = 1

\* C8: a step of the queue ETL never removes or changes a row of the queue
\* table and never changes the columns of an existing table; the append comes
\* after the table is ensured; and a successful append adds exactly the rows
\* of the batch, so n runs on one extract leave n copies of it.
C8_AppendOnly ==
    [][etl' # etl =>
         /\ fila_regulacao \sqsubseteq fila_regulacao'
         /\ (filaCols # {} => filaCols' = filaCols)
         /\ (etl'.pc = "append" => filaCols' # {})
         /\ (etl.pc \in {"append", "txn"} /\ etl'.outcome = "ok") =>
               \A r \in BagToSet(fila_regulacao') :
                   CopiesIn(r, fila_regulacao') =
                       CopiesIn(r, fila_regulacao)
                       + Cardinality({i \in 1..Len(etl.df.rows) :
                                        PadRows(etl.df, filaCols')[i] = r})]_vars

\* C8 witness: two runs on a one-row extract, no generator run: the row is
\* in the table twice.
C8_TwoCopies ==
    /\ copias = 2 /\ gen.outcome = "none"
    /\ BagCardinality(fila_regulacao) = 2
    /\ \E r \in BagToSet(fila_regulacao) : CopiesIn(r, fila_regulacao) = 2

\* C9: with the connection string missing under both names, the queue ETL
\* logs the condition and returns without raising, it never reaches a store
\* step, and no pipeline issues a statement against any table.
C9_MissingUrlReturnsEarly ==
    env = "none" =>
        /\ issued = {}
        /\ etl.pc = "idle"
        /\ (etl.outcome = "config_error" => etl.logged /\ ~etl.raised)

\* C9 witness: scripts/main.py has met the missing connection string, logged
\* it and returned.
C9_ScriptsReturnedEarly ==
    /\ env = "none" /\ qscript = "scripts/main.py"
    /\ etl.outcome = "config_error" /\ etl.logged /\ ~etl.raised
    /\ issued = {}

\* the text spells the token, letter case and surrounding whitespace aside
Spells(text, tok) ==
    LET t == strip(text) IN
    /\ Len(t) = Len(tok)
    /\ \A i \in 1..Len(tok) :
          t[i] \in {tok[i], IF tok[i] = "ã" THEN "Ã" ELSE upper(tok[i])}

\* C15: the tri-state boolean coercion returns true for every token of
\* {1, 1.0, true, t, sim, s, yes, y} and false for every token of
\* {0, 0.0, false, f, nao, não, n, no}, in any letter case and with
\* surrounding whitespace, and null for every other input (the empty text,
\* whitespace only, a missing cell and "nan" among them).
C15_TriState ==
    called = "para_booleano" =>
        IF arg # NULL /\ \E tok \in TrueTokens : Spells(arg, tok) THEN ret = PyTrue
        ELSE IF arg # NULL /\ \E tok \in FalseTokens : Spells(arg, tok) THEN ret = PyFalse
        ELSE ret = NULL

\* C15 witness: " NÃO" with a leading blank has been coerced to false.
C15_PaddedUpperNao ==
    /\ called = "para_booleano"
    /\ arg = <<" ", "N", "Ã", "O">>
    /\ ret = PyFalse

\* C11: the unit transformer accepts a raw frame with any set of columns,
\* never raises, and its output holds exactly the canonical columns that
\* were present in the input after renaming.
C11_TotalOnAnyColumns ==
    called = "transformar_dados" =>
        /\ ret.raised = "no"
        /\ ret.df.cols = {RenameCol(c) : c \in arg.cols} \cap MapaValues

\* the key of MAPA_COLUNAS that a column name of the raw frame spells,
\* letter case aside (the name itself when it spells none)
KeySpelled(c) ==
    CASE c \in {"NOME", "Nome", "nome"} -> "NOME"
      [] c \in {"Flg_Ativo", "FLG_ATIVO"} -> "Flg_Ativo"
      [] OTHER -> c

\* C12: the column mapper renames a source column to its canonical name
\* whatever the letter case of the source name (and the order of the
\* columns), and every source column without a mapping is absent from the
\* transformer's output.
C12_CaseInsensitiveMapping ==
    (called = "transformar_dados" /\ ret.raised = "no") =>
        ret.df.cols = {MAPA_COLUNAS[KeySpelled(c)] :
                          c \in {k \in arg.cols : KeySpelled(k) \in DOMAIN MAPA_COLUNAS}}

\* C12 witness: a frame with the columns NOME and FONTE has been transformed
\* and the unmapped column FONTE is gone.
C12_UnmappedDropped ==
    /\ called = "transformar_dados" /\ ret.raised = "no"
    /\ arg.cols = {"NOME", "FONTE"}
    /\ ret.df.cols = {"nome_unidade"}

\* C17: every row of the transformer's output carries the municipality
\* attribute, set to 'Rio de Janeiro'.
C17_MunicipioConstant ==
    (called = "transformar_dados" /\ ret.raised = "no") =>
        /\ "municipio" \in ret.df.cols
        /\ \A i \in 1..Len(ret.df.rows) : ret.df.rows[i]["municipio"] = RioDeJaneiro

\* the raw frame with every comma of its coordinate cells written as a dot
DotWritten(df) ==
    [df EXCEPT !.rows = [i \in 1..Len(df.rows) |->
        [c \in df.cols |-> IF c \in {"X", "Y"} /\ df.rows[i][c] # NULL
                           THEN replace_comma(df.rows[i][c])
                           ELSE df.rows[i][c]]]]

\* C18: through the transformer a comma-decimal coordinate yields the same
\* number (not a text) as its dot-decimal spelling, an unparsable or missing
\* coordinate yields null on a row that is kept, and each axis is coerced on
\* its own: X = -43,2075 gives latitude -43.2075 and Y = -22,9068 gives
\* longitude -22.9068.
C18_Coordinates ==
    (called = "transformar_dados" /\ ret.raised = "no"
       /\ \A i \in 1..Len(arg.rows) : arg.rows[i]["NOME"] # NULL) =>
        /\ Len(ret.df.rows) = Len(arg.rows)
        /\ ret.df = transformar_dados(DotWritten(arg)).df
        /\ \A i \in 1..Len(arg.rows) :
              /\ "X" \in arg.cols =>
                    LET raw == arg.rows[i]["X"]
                        v == ret.df.rows[i]["latitude"]
                    IN  /\ v = NULL \/ IsFloat(v)
                        /\ raw \in {Lon43Comma, Lon43Dot} => v = <<"<float>", -432075, 4>>
                        /\ raw = <<"4","x">> => v = NULL
              /\ "Y" \in arg.cols =>
                    LET raw == arg.rows[i]["Y"]
                        v == ret.df.rows[i]["longitude"]
                    IN  /\ v = NULL \/ IsFloat(v)
                        /\ raw \in {Lat22Comma, Lat22Dot} => v = <<"<float>", -229068, 4>>
                        /\ raw = NULL => v = NULL

\* C18 witness: a row with X = -43,2075 and Y = -22,9068
\* has come out with latitude -43.2075 and longitude -22.9068.
C18_CommaRow ==
    /\ called = "transformar_dados" /\ ret.raised = "no"
    /\ Len(arg.rows) = 1 /\ {"X", "Y"} \subseteq arg.cols
    /\ arg.rows[1]["X"] = Lon43Comma /\ arg.rows[1]["Y"] = Lat22Comma
    /\ ret.df.rows[1]["latitude"] = <<"<float>", -432075, 4>>
    /\ ret.df.rows[1]["longitude"] = <<"<float>", -229068, 4>>

\* C16: the loader's erase and append are separate commits with no
\* compensation: when the erase has committed and the append then fails,
\* the load ends in error, the rows erased are not put back, and (no other
\* run having overlapped) the table is left empty.
C16_NoCompensation ==
    [][\A w \in Writers :
          (loader[w].pc = "append" /\ loader[w].erase = "ok" /\ loader'[w].pc = "idle"
             /\ lastLoad'.abortadas = lastLoad.abortadas + 1) =>
              /\ unidades_saude' = unidades_saude
              /\ everFailed'
              /\ ~overlapped => unidades_saude' = EmptyBag]_vars

\* C16 witness: a load with rows had completed, a later run erased them and
\* its append failed; the table is empty at rest.
C16_EmptiedTable ==
    /\ Quiescent /\ ~overlapped
    /\ lastLoad.done /\ lastLoad.df_limpo.rows # <<>>
    /\ lastLoad.abortadas = 1
    /\ unidades_saude = EmptyBag

RowsOf(f, df) ==
    BagCardinality([j \in {k \in BagToSet(df) : \A c \in QueryCols : k[c] = f[c]} |-> df[j]])

C19_OneRowPerEntry ==
    dash.rendeu =>
        /\ BagCardinality(cache.df) = BagCardinality(fila_regulacao)
        /\ dash.total = BagCardinality(fila_regulacao)

\* a fetch of the dashboard cannot succeed in this state
FetchFails == env = "none" \/ ~storeUp \/ ~unidadesExists \/ ~(QueryCols \subseteq filaCols)

\* C20: a fetch that fails returns an empty result that is memoized like a
\* successful one: every run of the script within the next 60 time units
\* shows the placeholder without querying the store, whatever the store has
\* become, until the entry expires or the reload button clears it; the run
\* never raises.
C20_FailureMemoized ==
    [][/\ (dash'.rendeu /\ ~(cache.valid /\ cache.age < ttl) /\ FetchFails) =>
              /\ dash'.shown = "placeholder" /\ ~dash'.raised
              /\ dash'.pc = "idle" =>
                    cache' = [valid |-> TRUE, age |-> 0, df |-> EmptyBag, falhou |-> TRUE]
       /\ (dash'.rendeu /\ cache.valid /\ cache.falhou /\ cache.age < ttl) =>
              /\ dash'.shown = "placeholder"
              /\ ~dash'.consultou /\ ~dash'.raised]_vars

\* C20 witness: the store has recovered, and a run of the script 30 time
\* units after a failed fetch has shown the placeholder without querying.
C20_PlaceholderAfterRecovery ==
    /\ ~FetchFails
    /\ cache.valid /\ cache.falhou /\ cache.age = 30
    /\ dash.rendeu /\ dash.shown = "placeholder" /\ ~dash.consultou

\* C21: the rows that one Queue ETL run appends are pairwise distinct over the
\* written columns: a successful append adds no row more than once.
C21_AppendedDistinct ==
    [][ (etl.pc \in {"append", "txn"} /\ etl'.outcome = "ok")
        => \A r \in BagToSet(fila_regulacao') :
              CopiesIn(r, fila_regulacao') - CopiesIn(r, fila_regulacao) <= 1 ]_vars

\* one run of scripts/main.py has appended the same written row twice
C21_SameRowTwice ==
    /\ qscript = "scripts/main.py"
    /\ copias = 1
    /\ \E r \in BagToSet(fila_regulacao) : CopiesIn(r, fila_regulacao) = 2

====
